---- MODULE Spec2Model ----
(***************************************************************************)
(* Model of the IntelliDocument-Search engine (src/document_search.py) and *)
(* of the feedback path of its Streamlit front end (src/app.py).           *)
(*                                                                         *)
(* Text is modelled at character level: a Python str is a sequence of      *)
(* one-character strings.  Python None in a str-valued position is the     *)
(* one-element sequence None, which no text can equal.  Floats are modelled*)
(* as exact rationals <<numerator, denominator>> in lowest terms.          *)
(***************************************************************************)
EXTENDS Integers, Sequences, FiniteSets, TLC

VARIABLES
    pc,               \* position of the constructor / engine: see __init__
    Config,           \* Config.CHUNK_SIZE, Config.CHUNK_OVERLAP (from the environment)
    documents_dir,    \* files of documents_dir.glob("*.txt") still to be visited
    documents,        \* self.documents
    document_chunks,  \* self.document_chunks
    metadata,         \* self.metadata
    embeddings,       \* self.embeddings
    faiss_index,      \* self.faiss_index (None, or the vectors added to the index)
    ret,              \* the last call made on the engine and what it returned
    sessions          \* the update_relevance_score calls in progress in concurrent sessions

vars == <<pc, Config, documents_dir, documents, document_chunks, metadata,
          embeddings, faiss_index, ret, sessions>>

(***************************************************************************)
(* Bounds of the model.                                                    *)
(***************************************************************************)
MaxWindow == 3        \* largest small window_size handed to the chunker
MaxTopK == 2          \* largest top_k handed to the searches
MaxLen == 3           \* longest text handed to the chunker on its own
NumSessions == 2      \* sessions that give feedback concurrently
MaxFeedback == 2      \* feedback updates the corpus receives at most

(***************************************************************************)
(* Python values.                                                          *)
(***************************************************************************)
None == <<"None">>

Truthy(v) == v # None /\ v # <<>>

\* an optional int argument: <<>> is None, <<n>> is the int n
PyOr(x, default) == IF x = <<>> \/ x[1] = 0 THEN default ELSE x[1]

Min(a, b) == IF a <= b THEN a ELSE b

\* s[lo:hi] for 0 <= lo and 0 <= hi
Slice(s, lo, hi) == SubSeq(s, lo + 1, Min(hi, Len(s)))

(***************************************************************************)
(* Characters and str methods.                                             *)
(***************************************************************************)
Uppers == <<"A","B","C","D","E","F","G","H","I","J","K","L","M",
            "N","O","P","Q","R","S","T","U","V","W","X","Y","Z">>

Lowers == <<"a","b","c","d","e","f","g","h","i","j","k","l","m",
            "n","o","p","q","r","s","t","u","v","w","x","y","z">>

Digits == {"0","1","2","3","4","5","6","7","8","9"}

UpperSet == {Uppers[i] : i \in DOMAIN Uppers}

LowerSet == {Lowers[i] : i \in DOMAIN Lowers}

LowerOf == [u \in UpperSet |-> Lowers[CHOOSE i \in DOMAIN Uppers : Uppers[i] = u]]

IsUpper(c) == c \in UpperSet

IsLower(c) == c \in LowerSet

IsDigit(c) == c \in Digits

IsSpace(c) == c \in {" ", "\n", "\t"}

LowerChar(c) == IF IsUpper(c) THEN LowerOf[c] ELSE c

\* str.lower()
lower(s) == [i \in 1..Len(s) |-> LowerChar(s[i])]

\* needle in hay
Contains(needle, hay) ==
    \E i \in 0..(Len(hay) - Len(needle)) : SubSeq(hay, i + 1, i + Len(needle)) = needle

\* str.strip()
strip(s) ==
    LET keep == {i \in 1..Len(s) : ~IsSpace(s[i])}
    IN  IF keep = {} THEN <<>>
        ELSE SubSeq(s, CHOOSE i \in keep : \A j \in keep : i <= j,
                       CHOOSE i \in keep : \A j \in keep : i >= j)

RECURSIVE SplitFrom(_, _, _)
SplitFrom(s, i, cur) ==
    LET flush == IF cur = <<>> THEN <<>> ELSE <<cur>>
    IN  IF i > Len(s) THEN flush
        ELSE IF IsSpace(s[i]) THEN flush \o SplitFrom(s, i + 1, <<>>)
        ELSE SplitFrom(s, i + 1, Append(cur, s[i]))

\* str.split() with no separator: the maximal runs of non-whitespace
split(s) == SplitFrom(s, 1, <<>>)

RECURSIVE join(_, _)
\* sep.join(words)
join(sep, words) ==
    IF words = <<>> THEN <<>>
    ELSE IF Len(words) = 1 THEN words[1]
    ELSE words[1] \o sep \o join(sep, Tail(words))


(***************************************************************************)
(* Config (src/config.py): the defaults, and the environments modelled.    *)
(***************************************************************************)
CHUNK_SIZE == 500

CHUNK_OVERLAP == 50

Environments ==
    { [CHUNK_SIZE |-> CHUNK_SIZE, CHUNK_OVERLAP |-> CHUNK_OVERLAP],
      [CHUNK_SIZE |-> 3, CHUNK_OVERLAP |-> 1],
      [CHUNK_SIZE |-> 2, CHUNK_OVERLAP |-> 2] }

(***************************************************************************)
(* _split_into_chunks.                                                     *)
(***************************************************************************)
\* the i of range(0, n, step); step = 0 raises ValueError (see SplitRaises)
RECURSIVE PyRange(_, _, _)
PyRange(i, n, step) ==
    IF step <= 0 \/ i >= n THEN <<>> ELSE <<i>> \o PyRange(i + step, n, step)

SplitRaises(cfg, chunk_size, overlap) ==
    PyOr(chunk_size, cfg.CHUNK_SIZE) - PyOr(overlap, cfg.CHUNK_OVERLAP) = 0

RECURSIVE SelectChunks(_)
SelectChunks(cs) ==
    IF cs = <<>> THEN <<>>
    ELSE (IF strip(cs[1]) # <<>> THEN <<cs[1]>> ELSE <<>>) \o SelectChunks(Tail(cs))

_split_into_chunks(cfg, content, chunk_size_arg, overlap_arg) ==
    LET chunk_size == PyOr(chunk_size_arg, cfg.CHUNK_SIZE)
        overlap == PyOr(overlap_arg, cfg.CHUNK_OVERLAP)
        words == split(content)
        starts == PyRange(0, Len(words), chunk_size - overlap)
        raw == [k \in 1..Len(starts) |->
                   join(<<" ">>, Slice(words, starts[k], starts[k] + chunk_size))]
    IN  SelectChunks(raw)

(***************************************************************************)
(* _extract_metadata: re.search of the ordered patterns.  A match operator *)
(* gives <<>> when the pattern does not match at position p, else          *)
(* <<group(1)>>.                                                           *)
(***************************************************************************)
At(s, p) == IF p \in 1..Len(s) THEN s[p] ELSE "EOF"

InClass(c, class) ==
    CASE class = "\\s" -> IsSpace(c)
      [] class = "[a-z]" -> IsLower(c)
      [] class = "[^\\n]" -> c # "\n"

RECURSIVE RunEnd(_, _, _)
RunEnd(s, p, class) ==
    IF p <= Len(s) /\ InClass(s[p], class) THEN RunEnd(s, p + 1, class) ELSE p

\* label\s*([^\n]+): \s* is greedy and gives characters back until the group can start
LabelAt(label, s, p) ==
    LET a == p + Len(label)
        e == RunEnd(s, a, "\\s")
        gs == {g \in a..e : g <= Len(s) /\ s[g] # "\n"}
        g == CHOOSE x \in gs : \A y \in gs : x >= y
    IN  IF Slice(s, p - 1, a - 1) # label \/ gs = {} THEN <<>>
        ELSE <<SubSeq(s, g, RunEnd(s, g, "[^\\n]") - 1)>>

DigitsAt(s, p, n) == \A k \in 0..(n - 1) : IsDigit(At(s, p + k))

\* \d{1,2} at p, greedy, followed by the character next: its length, or 0
OneOrTwoDigits(s, p, next) ==
    IF DigitsAt(s, p, 2) /\ At(s, p + 2) = next THEN 2
    ELSE IF DigitsAt(s, p, 1) /\ At(s, p + 1) = next THEN 1
    ELSE 0

\* (\d{1,2}/\d{1,2}/\d{4})
SlashDateAt(s, p) ==
    LET a == OneOrTwoDigits(s, p, "/")
        b == OneOrTwoDigits(s, p + a + 1, "/")
        y == p + a + 1 + b + 1
    IN  IF a > 0 /\ b > 0 /\ DigitsAt(s, y, 4) THEN <<SubSeq(s, p, y + 3)>> ELSE <<>>

\* (\d{4}-\d{1,2}-\d{1,2})
IsoDateAt(s, p) ==
    LET m == OneOrTwoDigits(s, p + 5, "-")
        d == p + 5 + m + 1
        n == IF DigitsAt(s, d, 2) THEN 2 ELSE IF DigitsAt(s, d, 1) THEN 1 ELSE 0
    IN  IF DigitsAt(s, p, 4) /\ At(s, p + 4) = "-" /\ m > 0 /\ n > 0
        THEN <<SubSeq(s, p, d + n - 1)>> ELSE <<>>

\* ([A-Z][a-z]+,\s*[A-Z]{2})
CityStateAt(s, p) ==
    LET c == RunEnd(s, p + 1, "[a-z]")
        u == RunEnd(s, c + 1, "\\s")
    IN  IF /\ IsUpper(At(s, p)) /\ c > p + 1 /\ At(s, c) = ","
           /\ IsUpper(At(s, u)) /\ IsUpper(At(s, u + 1))
        THEN <<SubSeq(s, p, u + 1)>> ELSE <<>>

DateLabel == <<"D","a","t","e",":">>

AuthorLabel == <<"A","u","t","h","o","r",":">>

ByLabel == <<"B","y",":">>

LocationLabel == <<"L","o","c","a","t","i","o","n",":">>

\* the match of one of the patterns of _extract_metadata at position p
MatchAt(pattern, s, p) ==
    CASE pattern = "Date:\\s*([^\\n]+)" -> LabelAt(DateLabel, s, p)
      [] pattern = "(\\d{1,2}/\\d{1,2}/\\d{4})" -> SlashDateAt(s, p)
      [] pattern = "(\\d{4}-\\d{1,2}-\\d{1,2})" -> IsoDateAt(s, p)
      [] pattern = "Author:\\s*([^\\n]+)" -> LabelAt(AuthorLabel, s, p)
      [] pattern = "By:\\s*([^\\n]+)" -> LabelAt(ByLabel, s, p)
      [] pattern = "Location:\\s*([^\\n]+)" -> LabelAt(LocationLabel, s, p)
      [] pattern = "([A-Z][a-z]+,\\s*[A-Z]{2})" -> CityStateAt(s, p)

\* re.search: the match at the leftmost position that has one
re_search(pattern, s) ==
    LET ps == {p \in 1..Len(s) : MatchAt(pattern, s, p) # <<>>}
    IN  IF ps = {} THEN <<>>
        ELSE MatchAt(pattern, s, CHOOSE p \in ps : \A q \in ps : p <= q)

\* for pattern in patterns: first pattern that matches wins; None when none does
FirstPattern(ms) ==
    LET hit == {i \in DOMAIN ms : ms[i] # <<>>}
    IN  IF hit = {} THEN None
        ELSE strip(ms[CHOOSE i \in hit : \A j \in hit : i <= j][1])

TxtSuffix == <<".","t","x","t">>

RECURSIVE RemoveTxt(_)
\* filename.replace('.txt', '')
RemoveTxt(s) ==
    IF s = <<>> THEN <<>>
    ELSE IF Len(s) >= 4 /\ SubSeq(s, 1, 4) = TxtSuffix THEN RemoveTxt(SubSeq(s, 5, Len(s)))
    ELSE <<s[1]>> \o RemoveTxt(Tail(s))

_extract_metadata(content, filename) ==
    [ filename |-> filename,
      title    |-> RemoveTxt(filename),
      date     |-> FirstPattern(<<re_search("Date:\\s*([^\\n]+)", content),
                                  re_search("(\\d{1,2}/\\d{1,2}/\\d{4})", content),
                                  re_search("(\\d{4}-\\d{1,2}-\\d{1,2})", content)>>),
      author   |-> FirstPattern(<<re_search("Author:\\s*([^\\n]+)", content),
                                  re_search("By:\\s*([^\\n]+)", content)>>),
      location |-> FirstPattern(<<re_search("Location:\\s*([^\\n]+)", content),
                                  re_search("([A-Z][a-z]+,\\s*[A-Z]{2})", content)>>),
      page     |-> 1 ]

(***************************************************************************)
(* Floats, as exact rationals <<n, d>> with d > 0 in lowest terms.         *)
(***************************************************************************)
Abs(x) == IF x < 0 THEN -x ELSE x

RECURSIVE Gcd(_, _)
Gcd(a, b) == IF b = 0 THEN a ELSE Gcd(b, a % b)

Rat(n, d) ==
    LET g == Gcd(Abs(n), Abs(d))
        sgn == IF d < 0 THEN -1 ELSE 1
    IN  <<sgn * (n \div g), sgn * (d \div g)>>

RatAdd(a, b) == Rat(a[1] * b[2] + b[1] * a[2], a[2] * b[2])

RatMul(a, b) == Rat(a[1] * b[1], a[2] * b[2])

RatDiv(a, b) == Rat(a[1] * b[2], a[2] * b[1])

RatLess(a, b) == a[1] * b[2] < b[1] * a[2]

RatLeq(a, b) == a[1] * b[2] <= b[1] * a[2]

RatMin(a, b) == IF RatLeq(a, b) THEN a ELSE b

Zero == Rat(0, 1)

One == Rat(1, 1)

Half == Rat(1, 2)

RECURSIVE RatSum(_)
RatSum(rs) == IF rs = <<>> THEN Zero ELSE RatAdd(rs[1], RatSum(Tail(rs)))

(***************************************************************************)
(* The embedding model and the FAISS index (external libraries).           *)
(* SentenceTransformer.encode is a black box text -> vector; it is         *)
(* modelled by a fixed table of two-dimensional vectors of integer length, *)
(* indexed by a feature of the text, so that similarities are rationals.   *)
(***************************************************************************)
ModelVectors == << <<3, 4>>, <<5, 0>>, <<0, 2>>, <<4, 3>>, <<-5, 0>> >>

encode(text) ==
    LET v == ModelVectors[(Len(text) % Len(ModelVectors)) + 1]
    IN  <<Rat(v[1], 1), Rat(v[2], 1)>>

\* the non-negative root of a rational square
RatSqrt(r) ==
    LET Root(k) == CHOOSE x \in 0..k : x * x = k
    IN  Rat(Root(r[1]), Root(r[2]))

\* faiss.normalize_L2: a zero vector is left as it is
normalize_L2(v) ==
    LET norm == RatSqrt(RatAdd(RatMul(v[1], v[1]), RatMul(v[2], v[2])))
    IN  IF norm = Zero THEN v ELSE <<RatDiv(v[1], norm), RatDiv(v[2], norm)>>

InnerProduct(u, v) == RatAdd(RatMul(u[1], v[1]), RatMul(u[2], v[2]))

NoIndex == [built |-> FALSE, xb |-> <<>>]

\* IndexFlatIP.search(q, k): the k best (score, index) by inner product, best
\* first, ties in insertion order; missing neighbours are index -1
MissingScore == Rat(-1000, 1)

IndexSearch(index, q, k) ==
    LET n == Len(index.xb)
        score == [i \in 1..n |-> InnerProduct(q, index.xb[i])]
        before(j, i) == RatLess(score[i], score[j]) \/ (score[i] = score[j] /\ j < i)
        rank == [i \in 1..n |-> Cardinality({j \in 1..n : before(j, i)})]
        nth == [r \in 1..n |-> CHOOSE i \in 1..n : rank[i] = r - 1]
    IN  [r \in 1..k |-> IF r <= n THEN [score |-> score[nth[r]], idx |-> nth[r] - 1]
                        ELSE [score |-> MissingScore, idx |-> -1]]

(***************************************************************************)
(* The documents directory: the files a run may find there.                *)
(***************************************************************************)
\* "Author: Al\nrev 1/2/2024"
FileA == [ name |-> <<"a",".","t","x","t">>, readable |-> TRUE,
           content |-> <<"A","u","t","h","o","r",":"," ","A","l","\n","r","e","v"," ","1","/","2","/","2","0","2","4">> ]

\* "Ab, DE"
FileB == [ name |-> <<"b",".","t","x","t">>, readable |-> TRUE,
           content |-> <<"A","b",","," ","D","E">> ]

\* " \n": whitespace only
FileC == [ name |-> <<"c",".","t","x","t">>, readable |-> TRUE, content |-> <<" ","\n">> ]

\* a file whose open() or read() raises
FileD == [ name |-> <<"d",".","t","x","t">>, readable |-> FALSE, content |-> <<>> ]

Directories ==
    { <<>>, <<FileA, FileB>>, <<FileD, FileC, FileB>>, <<FileA, FileD, FileB>>,
      <<FileC, FileD>> }

(***************************************************************************)
(* __init__, _load_documents, _create_embeddings, _build_faiss_index.      *)
(***************************************************************************)
NoCall == [op |-> "none"]

Init ==
    /\ pc = "load"
    /\ Config \in Environments
    /\ documents_dir \in Directories
    /\ documents = <<>>
    /\ embeddings = <<>>
    /\ faiss_index = NoIndex
    /\ document_chunks = <<>>
    /\ metadata = <<>>
    /\ ret = NoCall
    /\ sessions = <<>>

PREVIEW_LEN == 300

Ellipsis == <<".", ".", ".">>

\* chunk[:300] + "..." if len(chunk) > 300 else chunk
Preview(chunk) ==
    IF Len(chunk) > PREVIEW_LEN THEN Slice(chunk, 0, PREVIEW_LEN) \o Ellipsis ELSE chunk

\* the record appended to self.metadata for chunk i (0-based) of chunks
ChunkMetadata(md, chunks, i) ==
    [ filename |-> md.filename, title |-> md.title, date |-> md.date,
      author |-> md.author, location |-> md.location, page |-> md.page,
      chunk_id |-> i, total_chunks |-> Len(chunks), chunk_text |-> Preview(chunks[i + 1]) ]

\* as LoadDocument, leaving the for loop when a document fails
LoadDocumentAbort ==
    /\ pc = "load"
    /\ documents_dir # <<>>
    /\ LET file == Head(documents_dir)
           md == _extract_metadata(file.content, file.name)
           chunks == _split_into_chunks(Config, file.content, <<>>, <<>>)
       IN  IF ~file.readable \/ SplitRaises(Config, <<>>, <<>>)
           THEN /\ UNCHANGED <<documents, document_chunks, metadata>>
                /\ documents_dir' = <<>>
           ELSE /\ documents_dir' = Tail(documents_dir)
                /\ document_chunks' = document_chunks \o chunks
                /\ metadata' = metadata \o
                       [k \in 1..Len(chunks) |-> ChunkMetadata(md, chunks, k - 1)]
                /\ documents' = Append(documents,
                       [filename |-> file.name, content |-> file.content,
                        metadata |-> md, chunks |-> chunks])
    /\ UNCHANGED <<pc, Config, embeddings, faiss_index, ret, sessions>>

\* one iteration of the for loop of _load_documents, its except clause included
LoadDocument ==
    /\ pc = "load"
    /\ documents_dir # <<>>
    /\ LET file == Head(documents_dir)
           md == _extract_metadata(file.content, file.name)
           chunks == _split_into_chunks(Config, file.content, <<>>, <<>>)
       IN  IF ~file.readable \/ SplitRaises(Config, <<>>, <<>>)
           THEN UNCHANGED <<documents, document_chunks, metadata>>
           ELSE /\ document_chunks' = document_chunks \o chunks
                /\ metadata' = metadata \o
                       [k \in 1..Len(chunks) |-> ChunkMetadata(md, chunks, k - 1)]
                /\ documents' = Append(documents,
                       [filename |-> file.name, content |-> file.content,
                        metadata |-> md, chunks |-> chunks])
    /\ documents_dir' = Tail(documents_dir)
    /\ UNCHANGED <<pc, Config, embeddings, faiss_index, ret, sessions>>

\* as CreateEmbeddings, encoding all chunks but the last
CreateEmbeddingsDropLast ==
    /\ pc = "load"
    /\ documents_dir = <<>>
    /\ embeddings' = IF document_chunks = <<>> THEN embeddings
                     ELSE [i \in 1..(Len(document_chunks) - 1) |-> encode(document_chunks[i])]
    /\ pc' = "index"
    /\ UNCHANGED <<Config, documents_dir, documents, document_chunks, metadata,
                   faiss_index, ret, sessions>>

CreateEmbeddings ==
    /\ pc = "load"
    /\ documents_dir = <<>>
    /\ embeddings' = IF document_chunks = <<>> THEN embeddings
                     ELSE [i \in 1..Len(document_chunks) |-> encode(document_chunks[i])]
    /\ pc' = "index"
    /\ UNCHANGED <<Config, documents_dir, documents, document_chunks, metadata,
                   faiss_index, ret, sessions>>

BuildFaissIndex ==
    /\ pc = "index"
    /\ IF Len(embeddings) = 0
       THEN UNCHANGED <<embeddings, faiss_index>>
       ELSE /\ embeddings' = [i \in 1..Len(embeddings) |-> normalize_L2(embeddings[i])]
            /\ faiss_index' = [built |-> TRUE, xb |-> embeddings']
    /\ pc' = "ready"
    /\ UNCHANGED <<Config, documents_dir, documents, document_chunks, metadata, ret,
                   sessions>>

(***************************************************************************)
(* _apply_filters.  A filter set is a function from field names to values. *)
(***************************************************************************)
\* as _apply_filters, with the date compared without regard to case
_apply_filters_date_nocase(md, filters) ==
    \A key \in DOMAIN filters :
        LET value == filters[key]
        IN  (key \in DOMAIN md /\ Truthy(md[key])) =>
                IF key \in {"date", "author", "location"}
                THEN ~(Truthy(value) /\ ~Contains(lower(value), lower(md[key])))
                ELSE value = md[key]

_apply_filters(md, filters) ==
    \A key \in DOMAIN filters :
        LET value == filters[key]
        IN  (key \in DOMAIN md /\ Truthy(md[key])) =>
                IF key = "date"
                THEN ~(Truthy(value) /\ ~Contains(value, md[key]))
                ELSE IF key \in {"author", "location"}
                THEN ~(Truthy(value) /\ ~Contains(lower(value), lower(md[key])))
                ELSE value = md[key]

(***************************************************************************)
(* search, keyword_search, get_document_metadata, update_relevance_score,  *)
(* answer_question as functions of the engine's state.                     *)
(***************************************************************************)
\* d = d.copy(); d[key] = value
SetKey(d, key, value) ==
    [k \in DOMAIN d \cup {key} |-> IF k = key THEN value ELSE d[k]]

\* as ResultRecord, keeping a stored relevance_score where the record has one
ResultRecordKeepingStoredScore(idx, score) ==
    IF "relevance_score" \in DOMAIN metadata[idx + 1]
    THEN SetKey(metadata[idx + 1], "chunk_text", document_chunks[idx + 1])
    ELSE SetKey(SetKey(metadata[idx + 1], "relevance_score", score),
                "chunk_text", document_chunks[idx + 1])

\* the result record built from the candidate idx (0-based) with its score
ResultRecord(idx, score) ==
    SetKey(SetKey(metadata[idx + 1], "relevance_score", score),
           "chunk_text", document_chunks[idx + 1])

RECURSIVE SearchLoopLateBreak(_, _, _, _)
\* as SearchLoop, leaving the loop one accepted result too late
SearchLoopLateBreak(cands, i, results, args) ==
    IF i > Len(cands) THEN results
    ELSE IF cands[i].idx = -1 THEN SearchLoopLateBreak(cands, i + 1, results, args)
    ELSE LET md == ResultRecord(cands[i].idx, cands[i].score)
         IN  IF args.filters # <<>> /\ ~_apply_filters(md, args.filters)
             THEN SearchLoopLateBreak(cands, i + 1, results, args)
             ELSE IF Len(results) + 1 > args.top_k THEN Append(results, md)
             ELSE SearchLoopLateBreak(cands, i + 1, Append(results, md), args)

RECURSIVE SearchLoop(_, _, _, _)
\* the for loop of search over the candidates cands[i..], results accumulated so far
SearchLoop(cands, i, results, args) ==
    IF i > Len(cands) THEN results
    ELSE IF cands[i].idx = -1 THEN SearchLoop(cands, i + 1, results, args)
    ELSE LET md == ResultRecord(cands[i].idx, cands[i].score)
         IN  IF args.filters # <<>> /\ ~_apply_filters(md, args.filters)
             THEN SearchLoop(cands, i + 1, results, args)
             ELSE IF Len(results) + 1 >= args.top_k THEN Append(results, md)
             ELSE SearchLoop(cands, i + 1, Append(results, md), args)

\* as search, without the test for a missing index: the call on None raises
search_without_index_guard(query, top_k, filters) ==
    IF ~faiss_index.built THEN <<"AttributeError">>
    ELSE LET query_embedding == normalize_L2(encode(query))
             cands == IndexSearch(faiss_index, query_embedding, top_k * 2)
         IN  SearchLoop(cands, 1, <<>>, [top_k |-> top_k, filters |-> filters])

search(query, top_k, filters) ==
    IF ~faiss_index.built THEN <<>>
    ELSE LET query_embedding == normalize_L2(encode(query))
             cands == IndexSearch(faiss_index, query_embedding, top_k * 2)
         IN  SearchLoop(cands, 1, <<>>, [top_k |-> top_k, filters |-> filters])

\* as KeywordHits, comparing without lowering either side
KeywordHitsCaseSensitive(keywords, chunk) ==
    Cardinality({k \in DOMAIN keywords : Contains(keywords[k], chunk)})

\* the number of list entries keyword with keyword.lower() in chunk.lower()
KeywordHits(keywords, chunk) ==
    LET chunk_lower == lower(chunk)
    IN  Cardinality({k \in DOMAIN keywords : Contains(lower(keywords[k]), chunk_lower)})

RECURSIVE KeywordLoop(_, _)
\* the for loop of keyword_search over the chunks i.. (1-based)
KeywordLoop(keywords, i) ==
    IF i > Len(document_chunks) THEN <<>>
    ELSE LET score == KeywordHits(keywords, document_chunks[i])
         IN  (IF score > 0
              THEN <<SetKey(SetKey(metadata[i], "relevance_score", Rat(score, Len(keywords))),
                            "chunk_text", document_chunks[i])>>
              ELSE <<>>) \o KeywordLoop(keywords, i + 1)

\* list.sort(key = relevance_score, reverse = True): stable
SortByScoreDesc(rs) ==
    LET before(j, i) == \/ RatLess(rs[i].relevance_score, rs[j].relevance_score)
                        \/ (rs[i].relevance_score = rs[j].relevance_score /\ j < i)
        rank == [i \in DOMAIN rs |-> Cardinality({j \in DOMAIN rs : before(j, i)})]
    IN  [r \in DOMAIN rs |-> rs[CHOOSE i \in DOMAIN rs : rank[i] = r - 1]]

keyword_search(keywords, top_k) ==
    Slice(SortByScoreDesc(KeywordLoop(keywords, 1)), 0, top_k)

RECURSIVE UniqueDocs(_, _)
\* the loop of get_document_metadata over the records i.., seen = filenames kept so far
UniqueDocs(i, seen) ==
    IF i > Len(metadata) THEN <<>>
    ELSE IF metadata[i].filename \in seen THEN UniqueDocs(i + 1, seen)
    ELSE <<SetKey(metadata[i], "total_chunks", metadata[i].total_chunks)>>
         \o UniqueDocs(i + 1, seen \cup {metadata[i].filename})

get_document_metadata == UniqueDocs(1, {})

\* as update_relevance_score, adding the feedback without halving the sum
update_relevance_score_no_halving(chunk_id, feedback_score) ==
    IF 0 <= chunk_id /\ chunk_id < Len(metadata)
    THEN LET rec == metadata[chunk_id + 1]
             current_score == IF "relevance_score" \in DOMAIN rec
                              THEN rec.relevance_score ELSE Half
             updated_score == RatAdd(current_score, feedback_score)
         IN  [metadata EXCEPT ![chunk_id + 1] = SetKey(rec, "relevance_score", updated_score)]
    ELSE metadata

\* as update_relevance_score, without the lower bound of the range test: a
\* negative chunk_id then indexes the list from its end
update_relevance_score_no_lower_bound(chunk_id, feedback_score) ==
    IF chunk_id < Len(metadata) /\ -chunk_id <= Len(metadata)
    THEN LET pos == IF chunk_id < 0 THEN Len(metadata) + chunk_id + 1 ELSE chunk_id + 1
             rec == metadata[pos]
             current_score == IF "relevance_score" \in DOMAIN rec
                              THEN rec.relevance_score ELSE Half
             updated_score == RatDiv(RatAdd(current_score, feedback_score), Rat(2, 1))
         IN  [metadata EXCEPT ![pos] = SetKey(rec, "relevance_score", updated_score)]
    ELSE metadata

\* self.metadata after update_relevance_score(chunk_id, feedback_score)
update_relevance_score(chunk_id, feedback_score) ==
    IF 0 <= chunk_id /\ chunk_id < Len(metadata)
    THEN LET rec == metadata[chunk_id + 1]
             current_score == IF "relevance_score" \in DOMAIN rec
                              THEN rec.relevance_score ELSE Half
             updated_score == RatDiv(RatAdd(current_score, feedback_score), Rat(2, 1))
         IN  [metadata EXCEPT ![chunk_id + 1] = SetKey(rec, "relevance_score", updated_score)]
    ELSE metadata

NoInformation == "I could not find relevant information to answer your question."

\* the confidence of answer_question when the boundary call succeeds
Confidence(context_results) ==
    LET top == Slice(context_results, 0, 3)
    IN  RatMin(One, RatDiv(RatSum([i \in DOMAIN top |-> top[i].relevance_score]),
                           Rat(3, 1)))

Source(result) ==
    [ title |-> result.title, author |-> result.author, date |-> result.date,
      relevance_score |-> result.relevance_score,
      chunk_text |-> Preview(result.chunk_text) ]

\* as answer_question, without the early return for an empty result sequence
answer_question_no_short_circuit(context_results, boundary) ==
    IF boundary = "ok"
    THEN LET top == Slice(context_results, 0, 3)
         IN  [ answer |-> "response.content[0].text",
               sources |-> [i \in DOMAIN top |-> Source(top[i])],
               confidence |-> Confidence(context_results) ]
    ELSE [answer |-> "Error generating answer: ...", sources |-> <<>>, confidence |-> Zero]

\* as answer_question, reporting the confidence also when the boundary call fails
answer_question_error_keeps_confidence(context_results, boundary) ==
    IF context_results = <<>>
    THEN [answer |-> NoInformation, sources |-> <<>>, confidence |-> Zero]
    ELSE IF boundary = "ok"
    THEN LET top == Slice(context_results, 0, 3)
         IN  [ answer |-> "response.content[0].text",
               sources |-> [i \in DOMAIN top |-> Source(top[i])],
               confidence |-> Confidence(context_results) ]
    ELSE [ answer |-> "Error generating answer: ...", sources |-> <<>>,
           confidence |-> Confidence(context_results) ]

\* boundary: "ok" when messages.create returns, "error" when it raises
answer_question(context_results, boundary) ==
    IF context_results = <<>>
    THEN [answer |-> NoInformation, sources |-> <<>>, confidence |-> Zero]
    ELSE IF boundary = "ok"
    THEN LET top == Slice(context_results, 0, 3)
         IN  [ answer |-> "response.content[0].text",
               sources |-> [i \in DOMAIN top |-> Source(top[i])],
               confidence |-> Confidence(context_results) ]
    ELSE [answer |-> "Error generating answer: ...", sources |-> <<>>, confidence |-> Zero]

(***************************************************************************)
(* The calls a client makes on the constructed engine.                     *)
(***************************************************************************)
Queries == { <<"r","e","v">>, <<"a">> }

FilterSets ==
    { <<>>, [location |-> <<"d","e">>, title |-> <<"b">>] }

KeywordLists ==
    { <<>>, <<<<"R","E","V">>>>, <<<<"r","e","v">>, <<"1","/">>>> }

Feedbacks == {Zero, One}

Frame == UNCHANGED <<pc, Config, documents_dir, documents, document_chunks,
                     embeddings, faiss_index, sessions>>

\* as Search, building each result in the stored record instead of a copy of it
SearchWithoutCopy ==
    /\ pc = "ready"
    /\ \E query \in Queries, top_k \in 1..MaxTopK, filters \in FilterSets :
          LET value == search(query, top_k, filters)
              hit(g) == {k \in DOMAIN value : /\ value[k].filename = metadata[g].filename
                                              /\ value[k].chunk_id = metadata[g].chunk_id}
          IN  /\ ret' = [ op |-> "search", query |-> query, top_k |-> top_k,
                          filters |-> filters, value |-> value ]
              /\ metadata' = [g \in DOMAIN metadata |->
                                 IF hit(g) = {} THEN metadata[g]
                                 ELSE value[CHOOSE k \in hit(g) : TRUE]]
    /\ Frame

Search ==
    /\ pc = "ready"
    /\ \E query \in Queries, top_k \in 1..MaxTopK, filters \in FilterSets :
          ret' = [ op |-> "search", query |-> query, top_k |-> top_k,
                   filters |-> filters, value |-> search(query, top_k, filters) ]
    /\ UNCHANGED metadata
    /\ Frame

KeywordSearch ==
    /\ pc = "ready"
    /\ \E keywords \in KeywordLists, top_k \in 0..MaxTopK :
          ret' = [ op |-> "keyword_search", keywords |-> keywords, top_k |-> top_k,
                   value |-> keyword_search(keywords, top_k) ]
    /\ UNCHANGED metadata
    /\ Frame

GetDocumentMetadata ==
    /\ pc = "ready"
    /\ ret' = [op |-> "get_document_metadata", value |-> get_document_metadata]
    /\ UNCHANGED metadata
    /\ Frame

\* the denominators record how many updates the corpus has received
FeedbackCount ==
    LET depths(rec) == {k \in 1..MaxFeedback : 2 ^ (k + 1) = rec.relevance_score[2]}
        depth(rec) == IF "relevance_score" \notin DOMAIN rec THEN 0
                      ELSE IF depths(rec) = {} THEN MaxFeedback
                      ELSE CHOOSE k \in depths(rec) : TRUE
        RECURSIVE total(_)
        total(i) == IF i > Len(metadata) THEN 0 ELSE depth(metadata[i]) + total(i + 1)
    IN  total(1)

UpdateRelevanceScore ==
    /\ pc = "ready"
    /\ FeedbackCount < MaxFeedback
    /\ \E chunk_id \in (-1)..(Len(metadata) + 1), feedback_score \in Feedbacks :
          /\ metadata' = update_relevance_score(chunk_id, feedback_score)
          /\ ret' = [ op |-> "update_relevance_score", chunk_id |-> chunk_id,
                      feedback_score |-> feedback_score ]
    /\ Frame

\* app.py: a click on "Relevant" / "Not Relevant" under result i of the results shown
Feedback ==
    /\ pc = "ready"
    /\ ret.op \in {"search", "keyword_search"}
    /\ FeedbackCount < MaxFeedback
    /\ \E i \in DOMAIN ret.value, feedback_score \in Feedbacks :
          /\ metadata' = update_relevance_score(ret.value[i].chunk_id, feedback_score)
          /\ ret' = [ op |-> "feedback", result |-> ret.value[i],
                      feedback_score |-> feedback_score ]
    /\ Frame

AnswerQuestion ==
    /\ pc = "ready"
    /\ ret.op \in {"search", "keyword_search"}
    /\ \E boundary \in {"ok", "error"} :
          ret' = [ op |-> "answer_question", context_results |-> ret.value,
                   boundary |-> IF ret.value = <<>> THEN "not called" ELSE boundary,
                   value |-> answer_question(ret.value, boundary) ]
    /\ UNCHANGED metadata
    /\ Frame

Next ==
    \/ LoadDocument
    \/ CreateEmbeddings
    \/ BuildFaissIndex
    \/ Search
    \/ KeywordSearch
    \/ GetDocumentMetadata
    \/ UpdateRelevanceScore
    \/ Feedback
    \/ AnswerQuestion

Spec == Init /\ [][Next]_vars

(***************************************************************************)
(* The chunker and the filter engine on their own: the arguments of one    *)
(* call are drawn in the initial state, and the call is then made.         *)
(***************************************************************************)
Idle ==
    /\ documents_dir = <<>>
    /\ documents = <<>>
    /\ embeddings = <<>>
    /\ faiss_index = NoIndex
    /\ document_chunks = <<>>
    /\ metadata = <<>>
    /\ sessions = <<>>

RECURSIVE Texts(_)
\* the texts of at most n characters over a word character, a blank and a newline
Texts(n) ==
    IF n = 0 THEN {<<>>}
    ELSE Texts(n - 1) \cup {Append(t, c) : t \in Texts(n - 1), c \in {"a", " ", "\n"}}

WindowSizes == (1..MaxWindow) \cup {CHUNK_OVERLAP}

InitChunker ==
    /\ pc = "call"
    /\ Config \in Environments
    /\ Idle
    /\ \E content \in Texts(MaxLen), chunk_size \in WindowSizes :
          \E overlap \in 0..(Min(chunk_size, MaxWindow + 1) - 1) :
             ret = [ op |-> "_split_into_chunks", content |-> content,
                     chunk_size |-> chunk_size, overlap |-> overlap ]

\* one call _split_into_chunks(content, chunk_size, overlap)
SplitIntoChunks ==
    /\ pc = "call"
    /\ ret.op = "_split_into_chunks"
    /\ pc' = "return"
    /\ ret' = IF SplitRaises(Config, <<ret.chunk_size>>, <<ret.overlap>>)
              THEN [ op |-> ret.op, content |-> ret.content, chunk_size |-> ret.chunk_size,
                     overlap |-> ret.overlap, raised |-> "ValueError", value |-> <<>> ]
              ELSE [ op |-> ret.op, content |-> ret.content, chunk_size |-> ret.chunk_size,
                     overlap |-> ret.overlap, raised |-> "",
                     value |-> _split_into_chunks(Config, ret.content,
                                                  <<ret.chunk_size>>, <<ret.overlap>>) ]
    /\ UNCHANGED <<Config, documents_dir, documents, document_chunks, metadata,
                   embeddings, faiss_index, sessions>>

NextChunker == SplitIntoChunks

SpecChunker == InitChunker /\ [][NextChunker]_vars

RecordValues == { None, <<"a">>, <<"A","b">> }

RecordDates == RecordValues \cup { <<"2","0","2","4","-","0","1","-","0","1">> }

FilterKeys == {"date", "author", "location", "title", "category"}

FilterValues(key) ==
    { <<>>, <<"a">>, <<"A">>, <<"b">> } \cup (IF key = "date" THEN { <<"2","0","2","4">>, <<"2","0","2","5">> } ELSE {})

FiltersOn(keys) ==
    {f \in [keys -> UNION {FilterValues(k) : k \in keys}] :
        \A k \in keys : f[k] \in FilterValues(k)}

\* the filter sets of at most two keys
FilterInputs ==
    UNION {FiltersOn(keys) : keys \in {K \in SUBSET FilterKeys : Cardinality(K) <= 2}}

InitFilter ==
    /\ pc = "call"
    /\ Config \in Environments
    /\ Config.CHUNK_SIZE = CHUNK_SIZE
    /\ Idle
    /\ \E date \in RecordDates, author \in RecordValues, location \in RecordValues,
          title \in RecordValues \ {None}, filters \in FilterInputs :
          ret = [ op |-> "_apply_filters",
                  metadata |-> [ date |-> date, author |-> author, location |-> location,
                                 title |-> title ],
                  filters |-> filters ]

\* one call _apply_filters(metadata, filters)
ApplyFilters ==
    /\ pc = "call"
    /\ ret.op = "_apply_filters"
    /\ pc' = "return"
    /\ ret' = [ op |-> ret.op, metadata |-> ret.metadata, filters |-> ret.filters,
                value |-> _apply_filters(ret.metadata, ret.filters) ]
    /\ UNCHANGED <<Config, documents_dir, documents, document_chunks, metadata,
                   embeddings, faiss_index, sessions>>

NextFilter == ApplyFilters

SpecFilter == InitFilter /\ [][NextFilter]_vars

(***************************************************************************)
(* Concurrent feedback.  load_search_engine is cached with                 *)
(* st.cache_resource, so every session's thread calls the one engine;      *)
(* update_relevance_score takes no lock, and a thread switch can fall      *)
(* between its read (line 359) and its write (line 361).                   *)
(***************************************************************************)
Sessions == 1..NumSessions

InitConcurrent ==
    /\ pc = "load"
    /\ Config = [CHUNK_SIZE |-> 3, CHUNK_OVERLAP |-> 1]
    /\ documents_dir = <<FileA, FileB>>
    /\ documents = <<>>
    /\ embeddings = <<>>
    /\ faiss_index = NoIndex
    /\ document_chunks = <<>>
    /\ metadata = <<>>
    /\ ret = NoCall
    /\ sessions = [t \in Sessions |-> [pc |-> "idle"]]

EngineFrame == UNCHANGED <<pc, Config, documents_dir, documents, document_chunks,
                           embeddings, faiss_index, ret>>

\* session t enters update_relevance_score(chunk_id, feedback_score)
SessionCall(t) ==
    /\ pc = "ready"
    /\ sessions[t].pc = "idle"
    /\ \E chunk_id \in 0..Len(metadata), feedback_score \in Feedbacks :
          sessions' = [sessions EXCEPT ![t] =
              [pc |-> "called", chunk_id |-> chunk_id, feedback_score |-> feedback_score]]
    /\ UNCHANGED metadata
    /\ EngineFrame

\* lines 357-359: the range test and the read of the current score
SessionRead(t) ==
    /\ sessions[t].pc = "called"
    /\ LET call == sessions[t]
           rec == metadata[call.chunk_id + 1]
       IN  IF 0 <= call.chunk_id /\ call.chunk_id < Len(metadata)
           THEN sessions' = [sessions EXCEPT ![t] =
                    [ pc |-> "read", chunk_id |-> call.chunk_id,
                      feedback_score |-> call.feedback_score,
                      current_score |-> IF "relevance_score" \in DOMAIN rec
                                        THEN rec.relevance_score ELSE Half ]]
           ELSE sessions' = [sessions EXCEPT ![t] =
                    [ pc |-> "returned", chunk_id |-> call.chunk_id,
                      feedback_score |-> call.feedback_score ]]
    /\ UNCHANGED metadata
    /\ EngineFrame

\* lines 360-361: the new score is computed from the value read and stored
SessionWrite(t) ==
    /\ sessions[t].pc = "read"
    /\ LET call == sessions[t]
           updated_score == RatDiv(RatAdd(call.current_score, call.feedback_score), Rat(2, 1))
       IN  /\ metadata' = [metadata EXCEPT ![call.chunk_id + 1] =
                               SetKey(@, "relevance_score", updated_score)]
           /\ sessions' = [sessions EXCEPT ![t] =
                  [ pc |-> "returned", chunk_id |-> call.chunk_id,
                    feedback_score |-> call.feedback_score ]]
    /\ EngineFrame

NextConcurrent ==
    \/ LoadDocument
    \/ CreateEmbeddings
    \/ BuildFaissIndex
    \/ \E t \in Sessions : SessionCall(t)
    \/ \E t \in Sessions : SessionRead(t)
    \/ \E t \in Sessions : SessionWrite(t)

SpecConcurrent == InitConcurrent /\ [][NextConcurrent]_vars

(***************************************************************************)
(* Claims.                                                                 *)
(***************************************************************************)
\* the position (1-based) in the Corpus Store of the chunk a result represents
GlobalPosition(result) ==
    CHOOSE g \in DOMAIN metadata :
        /\ metadata[g].filename = result.filename
        /\ metadata[g].chunk_id = result.chunk_id

\* C1: on a corpus of two or more documents, feedback given on a search result
\* through the front end changes the relevance_score of exactly the chunk the
\* result represents and of no other chunk.
C1_FeedbackHitsRepresentedChunk ==
    [][ (ret'.op = "feedback" /\ Len(documents) >= 2) =>
            \A g \in DOMAIN metadata :
                (metadata'[g] # metadata[g]) <=> (g = GlobalPosition(ret'.result)) ]_vars

LacksValue(md, key) == key \notin DOMAIN md \/ md[key] = None

\* C2: a record that lacks a filtered-on field (absent, or None) is rejected
\* by _apply_filters.
C2_MissingFieldFails ==
    (pc = "return" /\ ret.op = "_apply_filters") =>
        ((\E key \in DOMAIN ret.filters : LacksValue(ret.metadata, key)) => ~ret.value)

\* the predicate of one filter key, as the filter engine's contract states it
PredicateHolds(md, key, value) ==
    IF key = "date" THEN Contains(value, md[key])
    ELSE IF key \in {"author", "location"} THEN Contains(lower(value), lower(md[key]))
    ELSE value = md[key]

HasValue(md, key) == key \in DOMAIN md /\ md[key] # None /\ md[key] # <<>>

\* C3: for a record that has a value for every filtered-on field,
\* _apply_filters is true iff every predicate holds: date is case-sensitive
\* containment, author and location case-insensitive containment, any other
\* field equality; the empty filter set matches every record.
C3_MatchesIffEveryPredicate ==
    (pc = "return" /\ ret.op = "_apply_filters") =>
        /\ (\A key \in DOMAIN ret.filters : HasValue(ret.metadata, key)) =>
               (ret.value <=> \A key \in DOMAIN ret.filters :
                                  PredicateHolds(ret.metadata, key, ret.filters[key]))
        /\ (ret.filters = <<>> => ret.value)
        /\ (ret.metadata.date = <<"2","0","2","4","-","0","1","-","0","1">> /\ DOMAIN ret.filters = {"date"}) =>
               /\ (ret.filters.date = <<"2","0","2","4">> => ret.value)
               /\ (ret.filters.date = <<"2","0","2","5">> => ~ret.value)

C3_Witness ==
    /\ pc = "return"
    /\ ret.op = "_apply_filters"
    /\ ret.metadata.date = <<"2","0","2","4","-","0","1","-","0","1">>
    /\ ret.metadata.author = <<"A","b">>
    /\ ret.filters = [date |-> <<"2","0","2","4">>, author |-> <<"A">>]
    /\ ret.value

HasWord(content) == \E i \in DOMAIN content : ~IsSpace(content[i])

\* C10: for window_size >= 1 and 0 <= overlap < window_size the chunker
\* gives at least one chunk for an input holding a word, only non-empty
\* chunks, and the empty sequence for an empty or whitespace-only input.
C10_ChunkerCoversInput ==
    (pc = "return" /\ ret.op = "_split_into_chunks"
        /\ ret.chunk_size >= 1 /\ 0 <= ret.overlap /\ ret.overlap < ret.chunk_size) =>
        /\ ret.raised = ""
        /\ HasWord(ret.content) => Len(ret.value) >= 1
        /\ \A k \in DOMAIN ret.value : ret.value[k] # <<>>
        /\ ~HasWord(ret.content) => ret.value = <<>>

\* the raw Vector Index ranking for the query of the last search call
RawRanking == IndexSearch(faiss_index, normalize_L2(encode(ret.query)), 2 * ret.top_k)

IsNeighbour(cand) == cand.idx # -1

PassesFilter(cand) ==
    ret.filters = <<>> \/ _apply_filters(ResultRecord(cand.idx, cand.score), ret.filters)

IsAccepted(cand) == IsNeighbour(cand) /\ PassesFilter(cand)

\* C4: search returns the first top_k filter-passing candidates among the
\* 2*top_k nearest neighbours, in the index's order, sentinels discarded: at
\* most top_k records, every one passing the filter, and with an empty filter
\* set the raw ranking truncated to top_k.
C4_SearchIsFilteredPrefix ==
    (pc = "ready" /\ ret.op = "search") =>
        LET accepted == SelectSeq(RawRanking, IsAccepted)
            expected == [k \in 1..Min(ret.top_k, Len(accepted)) |->
                            ResultRecord(accepted[k].idx, accepted[k].score)]
            neighbours == SelectSeq(RawRanking, IsNeighbour)
        IN  /\ ret.value = expected
            /\ Len(ret.value) <= ret.top_k
            /\ \A k \in DOMAIN ret.value :
                  ret.filters # <<>> => _apply_filters(ret.value[k], ret.filters)
            /\ ret.filters = <<>> =>
                  /\ Len(ret.value) = Min(ret.top_k, Len(neighbours))
                  /\ \A k \in DOMAIN ret.value :
                        /\ ret.value[k].relevance_score = neighbours[k].score
                        /\ GlobalPosition(ret.value[k]) = neighbours[k].idx + 1

\* a filtered search over three chunks that asks for four neighbours, is
\* handed a sentinel, and keeps one of the three candidates
C4_Witness ==
    /\ pc = "ready"
    /\ ret.op = "search"
    /\ ret.top_k = 2
    /\ Len(document_chunks) = 3
    /\ ret.filters # <<>>
    /\ Len(ret.value) = 1
    /\ \E k \in DOMAIN RawRanking : ~IsNeighbour(RawRanking[k])
    /\ \E k \in DOMAIN RawRanking : IsNeighbour(RawRanking[k]) /\ ~PassesFilter(RawRanking[k])

\* the keyword score the contract gives chunk g for the keyword list
ContractScore(keywords, g) ==
    Rat(Cardinality({k \in DOMAIN keywords :
                        Contains(lower(keywords[k]), lower(document_chunks[g]))}),
        Len(keywords))

\* C5: for a non-empty keyword list, keyword_search scores each chunk as
\* (keywords contained, case-insensitively) / (number of keywords), returns
\* only chunks scoring above 0, best first, truncated to top_k; a chunk
\* holding every keyword scores 1.0 and one holding none is never returned.
C5_KeywordSearchScores ==
    (pc = "ready" /\ ret.op = "keyword_search" /\ ret.keywords # <<>>) =>
        LET positive == {g \in DOMAIN document_chunks :
                            RatLess(Zero, ContractScore(ret.keywords, g))}
            returned == {GlobalPosition(ret.value[k]) : k \in DOMAIN ret.value}
        IN  /\ Len(ret.value) = Min(ret.top_k, Cardinality(positive))
            /\ Cardinality(returned) = Len(ret.value)
            /\ returned \subseteq positive
            /\ \A k \in DOMAIN ret.value :
                  LET g == GlobalPosition(ret.value[k])
                  IN  /\ ret.value[k].relevance_score = ContractScore(ret.keywords, g)
                      /\ ret.value[k].chunk_text = document_chunks[g]
                      /\ (\A w \in DOMAIN ret.keywords :
                             Contains(lower(ret.keywords[w]), lower(document_chunks[g])))
                            => ret.value[k].relevance_score = One
            /\ \A j, k \in DOMAIN ret.value :
                  j < k => RatLeq(ret.value[k].relevance_score, ret.value[j].relevance_score)
            /\ \A g \in positive \ returned : \A k \in DOMAIN ret.value :
                  RatLeq(ContractScore(ret.keywords, g), ret.value[k].relevance_score)

\* two keywords: the second chunk holds both and is ranked before the first,
\* which holds one; the third holds none
C5_Witness ==
    /\ pc = "ready"
    /\ ret.op = "keyword_search"
    /\ Len(ret.keywords) = 2
    /\ Len(document_chunks) = 3
    /\ Len(ret.value) = 2
    /\ ret.value[1].relevance_score = One /\ GlobalPosition(ret.value[1]) = 2
    /\ ret.value[2].relevance_score = Half /\ GlobalPosition(ret.value[2]) = 1

\* the mean of the relevance scores of the first up-to-3 results
MeanOfTop(context_results) ==
    LET top == Slice(context_results, 0, 3)
    IN  RatDiv(RatSum([i \in DOMAIN top |-> top[i].relevance_score]), Rat(Len(top), 1))

\* C6: when the boundary call succeeds on a non-empty result sequence, the
\* confidence is min(1.0, mean of the relevance scores of the first up-to-3
\* results), also for sequences of one or two results.
C6_ConfidenceIsMeanOfTop ==
    (pc = "ready" /\ ret.op = "answer_question" /\ ret.boundary = "ok") =>
        ret.value.confidence = RatMin(One, MeanOfTop(ret.context_results))

RECURSIVE Flatten(_)
Flatten(ss) == IF ss = <<>> THEN <<>> ELSE ss[1] \o Flatten(Tail(ss))

\* C7: once the constructor has returned, and after any calls, the chunk
\* texts, the metadata records and the vectors have the same length and entry
\* i of each describes the same chunk, the empty corpus included.
C7_SequencesAligned ==
    pc = "ready" =>
        /\ Len(document_chunks) = Len(metadata)
        /\ Len(document_chunks) = Len(embeddings)
        /\ faiss_index.built => faiss_index.xb = embeddings
        /\ ~faiss_index.built => document_chunks = <<>>
        /\ document_chunks = Flatten([d \in DOMAIN documents |-> documents[d].chunks])
        /\ \A i \in DOMAIN document_chunks :
              /\ metadata[i].chunk_text = Preview(document_chunks[i])
              /\ embeddings[i] = normalize_L2(encode(document_chunks[i]))
              /\ metadata[i].chunk_id < metadata[i].total_chunks
              /\ \E d \in DOMAIN documents :
                    /\ documents[d].filename = metadata[i].filename
                    /\ Len(documents[d].chunks) = metadata[i].total_chunks
                    /\ documents[d].chunks[metadata[i].chunk_id + 1] = document_chunks[i]

C7_Witness ==
    /\ pc = "ready"
    /\ Len(documents) = 2
    /\ Len(metadata) = 3
    /\ ret.op = "feedback"
    /\ "relevance_score" \in DOMAIN metadata[1]

\* C8: after any feedback with values in {0.0, 1.0}, every stored
\* relevance_score lies in [0, 1].
C8_ScoreInUnitInterval ==
    \A i \in DOMAIN metadata :
        "relevance_score" \in DOMAIN metadata[i] =>
            /\ RatLeq(Zero, metadata[i].relevance_score)
            /\ RatLeq(metadata[i].relevance_score, One)

\* positive feedback twice on the same record: 0.5 -> 0.75 -> 0.875
C8_Witness ==
    /\ ret.op = "update_relevance_score"
    /\ ret.feedback_score = One
    /\ \E i \in DOMAIN metadata :
          /\ "relevance_score" \in DOMAIN metadata[i]
          /\ metadata[i].relevance_score = Rat(7, 8)

\* C9: update_relevance_score with an index outside 0..len(metadata)-1 leaves
\* every metadata record, chunk and vector unchanged.
C9_OutOfRangeIsNoOp ==
    [][ (ret'.op = "update_relevance_score"
            /\ (ret'.chunk_id < 0 \/ ret'.chunk_id >= Len(metadata))) =>
        UNCHANGED <<metadata, document_chunks, embeddings, faiss_index, documents>> ]_vars

C9_Witness ==
    /\ pc = "ready"
    /\ ret.op = "update_relevance_score"
    /\ Len(metadata) = 3
    /\ ret.chunk_id = -1
    /\ \A i \in DOMAIN metadata : "relevance_score" \notin DOMAIN metadata[i]

\* C11: answer_question on an empty result sequence returns the fixed "no
\* information found" answer with no sources and confidence 0.0, and the
\* answer-generation boundary is not invoked.
C11_EmptyResultsShortCircuit ==
    (pc = "ready" /\ ret.op = "answer_question" /\ ret.context_results = <<>>) =>
        /\ ret.value = [answer |-> NoInformation, sources |-> <<>>, confidence |-> Zero]
        /\ ret.boundary = "not called"

C11_Witness ==
    /\ pc = "ready"
    /\ ret.op = "answer_question"
    /\ ret.context_results = <<>>
    /\ Len(document_chunks) = 3

\* C12: when the boundary call fails on a non-empty result sequence,
\* answer_question returns a payload carrying the error text with confidence
\* 0.0, and the corpus state is unchanged.
C12_BoundaryFailureIsPayload ==
    [][ (ret'.op = "answer_question" /\ ret'.boundary = "error") =>
            /\ ret'.context_results # <<>>
            /\ ret'.value.answer = "Error generating answer: ..."
            /\ ret'.value.confidence = Zero
            /\ UNCHANGED <<metadata, document_chunks, embeddings, faiss_index, documents>>
      ]_vars

C12_Witness ==
    /\ pc = "ready"
    /\ ret.op = "answer_question"
    /\ ret.boundary = "error"
    /\ Len(ret.context_results) = 2
    /\ ret.value.sources = <<>>

\* the orders in which the calls of the sessions in T can be applied one after another
Orders(T) ==
    {o \in [1..Cardinality(T) -> T] : \A i, j \in 1..Cardinality(T) : o[i] = o[j] => i = j}

RECURSIVE ScoreAfter(_, _)
\* the score after the calls of the sessions order[1], order[2], ... applied in turn
ScoreAfter(score, order) ==
    IF order = <<>> THEN score
    ELSE ScoreAfter(RatDiv(RatAdd(score, sessions[order[1]].feedback_score), Rat(2, 1)),
                    Tail(order))

\* C13: when concurrent update_relevance_score calls on one index have all
\* returned, the stored score is the result of applying them in some
\* sequential order: no update is lost.
C13_ConcurrentFeedbackSerialized ==
    (pc = "ready" /\ \A t \in Sessions : sessions[t].pc = "returned") =>
        \A g \in DOMAIN metadata :
            LET T == {t \in Sessions : sessions[t].chunk_id = g - 1}
            IN  T # {} =>
                    /\ "relevance_score" \in DOMAIN metadata[g]
                    /\ \E o \in Orders(T) : metadata[g].relevance_score = ScoreAfter(Half, o)

\* C14: on an empty corpus (no chunk, no vector index) search and
\* keyword_search return the empty sequence for every query, keyword list
\* and top_k.
C14_EmptyCorpusSearchesEmpty ==
    (pc = "ready" /\ document_chunks = <<>> /\ ret.op \in {"search", "keyword_search"}) =>
        /\ ~faiss_index.built
        /\ ret.value = <<>>

\* a search on the corpus of a directory whose only readable file is blank
C14_Witness ==
    /\ pc = "ready"
    /\ document_chunks = <<>>
    /\ Len(documents) = 1
    /\ ret.op = "search"
    /\ ret.top_k = 2

\* loading or chunking of the file raises inside the try block
FailsToIngest(file) == ~file.readable \/ Config.CHUNK_SIZE = Config.CHUNK_OVERLAP

\* C15: ingest is skip-and-continue: a document whose loading or chunking
\* fails leaves no chunk, no metadata record and no document entry, ingest
\* goes on with the next file, and every other document is ingested.
C15_IngestSkipsAndContinues ==
    [][ (pc = "load" /\ documents_dir # <<>>) =>
            LET file == Head(documents_dir)
            IN  /\ pc' = "load"
                /\ documents_dir' = Tail(documents_dir)
                /\ FailsToIngest(file) =>
                      UNCHANGED <<documents, document_chunks, metadata>>
                /\ ~FailsToIngest(file) =>
                      /\ Len(documents') = Len(documents) + 1
                      /\ SubSeq(documents', 1, Len(documents)) = documents
                      /\ documents'[Len(documents')].filename = file.name
                      /\ document_chunks' =
                            document_chunks \o documents'[Len(documents')].chunks
                      /\ Len(metadata') = Len(document_chunks')
                      /\ SubSeq(metadata', 1, Len(metadata)) = metadata
                      /\ \A i \in (Len(metadata) + 1)..Len(metadata') :
                            metadata'[i].filename = file.name
      ]_vars

\* d.txt could not be read, and c.txt and b.txt after it were ingested
C15_Witness ==
    /\ pc = "ready"
    /\ Len(documents) = 2
    /\ documents[1].filename = FileC.name
    /\ documents[2].filename = FileB.name
    /\ Len(metadata) = 1
    /\ metadata[1].filename = FileB.name

ReadOnlyCalls == {"search", "keyword_search", "get_document_metadata", "answer_question"}

\* C16: after ingest relevance_score is the only stored field that changes:
\* the queries leave every stored record, chunk text and vector unchanged,
\* and update_relevance_score(i, v) with i in range changes only the
\* relevance_score of record i.
C16_OnlyRelevanceScoreChanges ==
    [][ (pc = "ready" /\ pc' = "ready") =>
            /\ UNCHANGED <<document_chunks, embeddings, faiss_index, documents>>
            /\ Len(metadata') = Len(metadata)
            /\ \A g \in DOMAIN metadata :
                  /\ DOMAIN metadata'[g] \subseteq DOMAIN metadata[g] \cup {"relevance_score"}
                  /\ \A field \in DOMAIN metadata[g] \ {"relevance_score"} :
                        /\ field \in DOMAIN metadata'[g]
                        /\ metadata'[g][field] = metadata[g][field]
            /\ ret'.op \in ReadOnlyCalls => metadata' = metadata
            /\ (ret'.op = "update_relevance_score"
                   /\ 0 <= ret'.chunk_id /\ ret'.chunk_id < Len(metadata)) =>
                  /\ "relevance_score" \in DOMAIN metadata'[ret'.chunk_id + 1]
                  /\ \A g \in DOMAIN metadata :
                        g # ret'.chunk_id + 1 => metadata'[g] = metadata[g]
      ]_vars

\* a search made after feedback has stored a score in one of three records
C16_Witness ==
    /\ pc = "ready"
    /\ ret.op = "search"
    /\ Len(ret.value) = 2
    /\ Len(metadata) = 3
    /\ "relevance_score" \in DOMAIN metadata[2]
    /\ "relevance_score" \notin DOMAIN metadata[1]
    /\ "relevance_score" \notin DOMAIN metadata[3]

\* the stored record as it was before any feedback
Pristine(rec) == [field \in DOMAIN rec \ {"relevance_score"} |-> rec[field]]

\* the result for the chunk at position g (1-based) on a corpus without feedback
PristineResult(g, score) ==
    SetKey(SetKey(Pristine(metadata[g]), "relevance_score", score),
           "chunk_text", document_chunks[g])

AcceptedBeforeFeedback(cand) ==
    /\ cand.idx # -1
    /\ ret.filters = <<>>
          \/ _apply_filters(PristineResult(cand.idx + 1, cand.score), ret.filters)

\* the positions of the chunks with a positive keyword score, best first,
\* equal scores in corpus order
KeywordRanking ==
    LET positive == {g \in DOMAIN document_chunks :
                        RatLess(Zero, ContractScore(ret.keywords, g))}
        before(h, g) == \/ RatLess(ContractScore(ret.keywords, g), ContractScore(ret.keywords, h))
                        \/ (ContractScore(ret.keywords, g) = ContractScore(ret.keywords, h)
                               /\ h < g)
    IN  [r \in 1..Cardinality(positive) |->
            CHOOSE g \in positive : Cardinality({h \in positive : before(h, g)}) = r - 1]

\* C17: stored feedback never influences retrieval: whatever feedback has
\* been recorded, search and keyword_search return the results (membership,
\* order, reported relevance_score) they return on the corpus without any
\* feedback.
C17_FeedbackDoesNotInfluenceRetrieval ==
    /\ (pc = "ready" /\ ret.op = "search") =>
          LET accepted == SelectSeq(RawRanking, AcceptedBeforeFeedback)
          IN  ret.value = [k \in 1..Min(ret.top_k, Len(accepted)) |->
                              PristineResult(accepted[k].idx + 1, accepted[k].score)]
    /\ (pc = "ready" /\ ret.op = "keyword_search" /\ ret.keywords # <<>>) =>
          ret.value = [k \in 1..Min(ret.top_k, Len(KeywordRanking)) |->
                          PristineResult(KeywordRanking[k],
                                         ContractScore(ret.keywords, KeywordRanking[k]))]

\* a search returns a chunk whose stored, feedback-adjusted score differs
\* from the score reported in the result
C17_Witness ==
    /\ pc = "ready"
    /\ ret.op = "search"
    /\ \E k \in DOMAIN ret.value :
          LET g == GlobalPosition(ret.value[k])
          IN  /\ "relevance_score" \in DOMAIN metadata[g]
              /\ metadata[g].relevance_score # ret.value[k].relevance_score

====
